---------------------------- MODULE Spec2Model ----------------------------
(***************************************************************************)
(* A model of the key helper of kameroon-lib (src/index.js): the byte/text *)
(* codec, the key store kept in localStorage with its one hour expiry, and *)
(* the RSA-OAEP encrypt / decrypt helpers.                                 *)
(*                                                                         *)
(* Text is modelled as JavaScript has it: a string is a sequence of UTF-16 *)
(* code units (naturals below 65536), a buffer is a sequence of bytes.     *)
(* The Web platform pieces the library calls (btoa, atob, parseInt,        *)
(* TextEncoder, TextDecoder, crypto.subtle, localStorage) are modelled by  *)
(* what they do on the values the model feeds them.                        *)
(***************************************************************************)
EXTENDS Integers, Sequences, FiniteSets, TLC

VARIABLES
    store,        \* localStorage: the three fields, each absent or a string
    now,          \* the value Date.now() returns
    ticks,        \* how often the clock has advanced (bounds the model)
    sv,           \* the calls of saveKeysToLocalStorage, one record per call
    writer,       \* history: the save call (0: none) and context that last wrote each field
    savedAt,      \* history: Date.now() as read by the save that last wrote 'ttl'
    failedWrite,  \* history: some localStorage.setItem has thrown
    log,          \* number of console.error calls
    lastLoad,     \* outcome of the latest fetchKeysFromLocalStorage call
    enc,          \* outcome of the latest encryptMessage call
    dec,          \* outcome of the latest decryptMessage call
    buf,          \* codec: the buffer handed to ab2str
    str,          \* codec: the string ab2str returned
    back,         \* codec: the buffer str2ab returned
    codecPc       \* codec: position in the ab2str / str2ab round trip

vars == <<store, now, ticks, sv, writer, savedAt, failedWrite, log,
          lastLoad, enc, dec, buf, str, back, codecPc>>

-----------------------------------------------------------------------------
(* Bounds of the model.                                                    *)

NumSaves == 2
MaxTicks == 2
MaxLen == 3
StartMillis == 1000

-----------------------------------------------------------------------------
(* Optional values: what localStorage.getItem returns (null or a string).  *)

Absent == [has |-> FALSE, val |-> <<>>]
Some(v) == [has |-> TRUE, val |-> v]

-----------------------------------------------------------------------------
(* Codec: ab2str and str2ab.                                               *)

\* String.fromCharCode(c): the code unit c modulo 2^16.
FromCharCode(c) == c % 65536

\* Storing a number into a Uint8Array element keeps it modulo 2^8.
ToUint8Low7(c) == c % 128
ToUint8(c) == c % 256

ab2str(b) == [i \in 1..Len(b) |-> FromCharCode(b[i])]

str2ab(s) == [i \in 1..Len(s) |-> ToUint8(s[i])]

-----------------------------------------------------------------------------
(* Base64: window.btoa and window.atob on strings of code units.           *)

B64Char(v) ==
    IF v < 26 THEN 65 + v
    ELSE IF v < 52 THEN 97 + (v - 26)
    ELSE IF v < 62 THEN 48 + (v - 52)
    ELSE IF v = 62 THEN 43 ELSE 47

IsB64Char(c) ==
    \/ c \in 65..90
    \/ c \in 97..122
    \/ c \in 48..57
    \/ c = 43
    \/ c = 47

B64Val(c) ==
    IF c \in 65..90 THEN c - 65
    ELSE IF c \in 97..122 THEN c - 97 + 26
    ELSE IF c \in 48..57 THEN c - 48 + 52
    ELSE IF c = 43 THEN 62 ELSE 63

PadChar == 61

RECURSIVE BtoaFrom(_, _)
BtoaFrom(s, i) ==
    LET n == Len(s) - i + 1 IN
    IF n <= 0 THEN <<>>
    ELSE IF n = 1 THEN
        <<B64Char(s[i] \div 4), B64Char((s[i] % 4) * 16), PadChar, PadChar>>
    ELSE IF n = 2 THEN
        <<B64Char(s[i] \div 4),
          B64Char((s[i] % 4) * 16 + s[i+1] \div 16),
          B64Char((s[i+1] % 16) * 4), PadChar>>
    ELSE
        <<B64Char(s[i] \div 4),
          B64Char((s[i] % 4) * 16 + s[i+1] \div 16),
          B64Char((s[i+1] % 16) * 4 + s[i+2] \div 64),
          B64Char(s[i+2] % 64)>> \o BtoaFrom(s, i + 3)

\* btoa throws InvalidCharacterError on a code unit above 255.
btoa(s) ==
    IF \E i \in 1..Len(s) : s[i] > 255
    THEN [ok |-> FALSE, val |-> <<>>]
    ELSE [ok |-> TRUE, val |-> BtoaFrom(s, 1)]

IsAsciiWhitespace(c) == c \in {9, 10, 12, 13, 32}

RECURSIVE Filter(_, _)
Filter(s, i) ==
    IF i > Len(s) THEN <<>>
    ELSE IF IsAsciiWhitespace(s[i]) THEN Filter(s, i + 1)
    ELSE <<s[i]>> \o Filter(s, i + 1)

StripPad(s) ==
    IF Len(s) % 4 = 0 /\ Len(s) > 0 /\ s[Len(s)] = PadChar
    THEN IF s[Len(s) - 1] = PadChar
         THEN SubSeq(s, 1, Len(s) - 2)
         ELSE SubSeq(s, 1, Len(s) - 1)
    ELSE s

RECURSIVE AtobFrom(_, _)
AtobFrom(s, i) ==
    LET n == Len(s) - i + 1 IN
    IF n <= 1 THEN <<>>
    ELSE IF n = 2 THEN
        <<B64Val(s[i]) * 4 + B64Val(s[i+1]) \div 16>>
    ELSE IF n = 3 THEN
        <<B64Val(s[i]) * 4 + B64Val(s[i+1]) \div 16,
          (B64Val(s[i+1]) % 16) * 16 + B64Val(s[i+2]) \div 4>>
    ELSE
        <<B64Val(s[i]) * 4 + B64Val(s[i+1]) \div 16,
          (B64Val(s[i+1]) % 16) * 16 + B64Val(s[i+2]) \div 4,
          (B64Val(s[i+2]) % 4) * 64 + B64Val(s[i+3])>> \o AtobFrom(s, i + 4)

\* atob (forgiving-base64 decode): throws InvalidCharacterError on a length
\* of 1 modulo 4 or on a character outside the alphabet.
atob(s) ==
    LET d == StripPad(Filter(s, 1)) IN
    IF Len(d) % 4 = 1 \/ \E i \in 1..Len(d) : ~IsB64Char(d[i])
    THEN [ok |-> FALSE, val |-> <<>>]
    ELSE [ok |-> TRUE, val |-> AtobFrom(d, 1)]

-----------------------------------------------------------------------------
(* Numbers and text: Number.prototype.toString and parseInt.               *)

Digit0 == 48

RECURSIVE DigitsOf(_)
DigitsOf(n) ==
    IF n < 10 THEN <<Digit0 + n>>
    ELSE DigitsOf(n \div 10) \o <<Digit0 + (n % 10)>>

MinusChar == 45
PlusChar == 43

\* n.toString() for an integer n.
toString(n) == IF n < 0 THEN <<MinusChar>> \o DigitsOf(0 - n) ELSE DigitsOf(n)

\* "null", the string parseInt makes of a null argument.
NullText == <<110, 117, 108, 108>>

NaN == [nan |-> TRUE, n |-> 0]
Num(n) == [nan |-> FALSE, n |-> n]

IsStrWhiteSpace(c) == c \in {9, 10, 11, 12, 13, 32, 160, 5760, 8232, 8233, 8239, 8287, 12288, 65279} \/ c \in 8192..8202

RECURSIVE SkipWhiteSpace(_, _)
SkipWhiteSpace(s, i) ==
    IF i <= Len(s) /\ IsStrWhiteSpace(s[i]) THEN SkipWhiteSpace(s, i + 1) ELSE i

\* The value of the code unit c as a digit, 99 when it is none.
DigitValue(c) ==
    IF c \in 48..57 THEN c - 48
    ELSE IF c \in 97..122 THEN c - 97 + 10
    ELSE IF c \in 65..90 THEN c - 65 + 10
    ELSE 99

\* The number written by the longest run of radix-r digits of s from index
\* i on, given the value acc and the count k of the digits already read.
RECURSIVE ReadDigits(_, _, _, _, _)
ReadDigits(s, i, r, acc, k) ==
    IF i <= Len(s) /\ DigitValue(s[i]) < r
    THEN ReadDigits(s, i + 1, r, acc * r + DigitValue(s[i]), k + 1)
    ELSE IF k = 0 THEN NaN ELSE Num(acc)

\* parseInt(x) with no radix argument, x being null or a string.
parseInt(x) ==
    LET s == IF x.has THEN x.val ELSE NullText
        i == SkipWhiteSpace(s, 1)
        neg == i <= Len(s) /\ s[i] = MinusChar
        j == IF i <= Len(s) /\ s[i] \in {MinusChar, PlusChar} THEN i + 1 ELSE i
        hex == j + 1 <= Len(s) /\ s[j] = 48 /\ s[j+1] \in {120, 88}
        r == IF hex THEN ReadDigits(s, j + 2, 16, 0, 0)
                    ELSE ReadDigits(s, j, 10, 0, 0)
    IN IF r.nan THEN NaN ELSE IF neg THEN Num(0 - r.n) ELSE r

\* a < b on numbers, where b may be NaN: any comparison with NaN is false.
LessThanOrEqual(a, b) == ~b.nan /\ a <= b.n
LessThanNaNTrue(a, b) == b.nan \/ a < b.n
LessThan(a, b) == ~b.nan /\ a < b.n

-----------------------------------------------------------------------------
(* UTF-8: new TextEncoder().encode and new TextDecoder().decode.           *)

IsHighSurrogate(c) == c \in 55296..56319
IsLowSurrogate(c) == c \in 56320..57343
ReplacementChar == 65533

\* The UTF-8 bytes of the scalar value cp.
Utf8Latin1(cp) == <<cp % 256>>
Utf8OfScalar(cp) ==
    IF cp < 128 THEN <<cp>>
    ELSE IF cp < 2048 THEN <<192 + (cp \div 64), 128 + (cp % 64)>>
    ELSE IF cp < 65536 THEN
        <<224 + (cp \div 4096), 128 + ((cp \div 64) % 64), 128 + (cp % 64)>>
    ELSE <<240 + (cp \div 262144), 128 + ((cp \div 4096) % 64),
           128 + ((cp \div 64) % 64), 128 + (cp % 64)>>

\* encode, unit by unit: a surrogate pair is one scalar value, written at
\* its first half; a lone surrogate is replaced by U+FFFD.
EncodeUnit(s, i) ==
    IF IsHighSurrogate(s[i]) /\ i < Len(s) /\ IsLowSurrogate(s[i+1])
    THEN Utf8OfScalar(65536 + (s[i] - 55296) * 1024 + (s[i+1] - 56320))
    ELSE IF IsLowSurrogate(s[i]) /\ i > 1 /\ IsHighSurrogate(s[i-1])
    THEN <<>>
    ELSE IF IsHighSurrogate(s[i]) \/ IsLowSurrogate(s[i])
    THEN Utf8OfScalar(ReplacementChar)
    ELSE Utf8OfScalar(s[i])

\* The outputs of units lo..hi in order (halving keeps the nesting shallow).
RECURSIVE EncodeRange(_, _, _)
EncodeRange(s, lo, hi) ==
    IF lo > hi THEN <<>>
    ELSE IF lo = hi THEN EncodeUnit(s, lo)
    ELSE LET mid == (lo + hi) \div 2 IN
         EncodeRange(s, lo, mid) \o EncodeRange(s, mid + 1, hi)

TextEncoderEncode(s) == EncodeRange(s, 1, Len(s))

IsCont(b, i) == i <= Len(b) /\ b[i] \in 128..191

\* The code units of the scalar value cp.
UnitsOfScalar(cp) ==
    IF cp < 65536 THEN <<cp>>
    ELSE <<55296 + (cp - 65536) \div 1024, 56320 + ((cp - 65536) % 1024)>>

\* The length of the well-formed sequence that starts at byte i, 0 when
\* none does.
SequenceAt(b, i) ==
    IF i < 1 \/ i > Len(b) THEN 0
    ELSE IF b[i] < 128 THEN 1
    ELSE IF b[i] \in 194..223 /\ IsCont(b, i + 1) THEN 2
    ELSE IF /\ b[i] \in 224..239 /\ IsCont(b, i + 1) /\ IsCont(b, i + 2)
            /\ (b[i] = 224 => b[i+1] >= 160)
            /\ (b[i] = 237 => b[i+1] <= 159)
    THEN 3
    ELSE IF /\ b[i] \in 240..244
            /\ IsCont(b, i + 1) /\ IsCont(b, i + 2) /\ IsCont(b, i + 3)
            /\ (b[i] = 240 => b[i+1] >= 144)
            /\ (b[i] = 244 => b[i+1] <= 143)
    THEN 4
    ELSE 0

\* decode (not fatal), byte by byte: the first byte of a well-formed
\* sequence gives the code units of its scalar value, the bytes that follow
\* it in the sequence give nothing, any other byte gives U+FFFD.
DecodeByte(b, i) ==
    IF SequenceAt(b, i) = 1 THEN <<b[i]>>
    ELSE IF SequenceAt(b, i) = 2
    THEN UnitsOfScalar((b[i] - 192) * 64 + (b[i+1] - 128))
    ELSE IF SequenceAt(b, i) = 3
    THEN UnitsOfScalar((b[i] - 224) * 4096 + (b[i+1] - 128) * 64 + (b[i+2] - 128))
    ELSE IF SequenceAt(b, i) = 4
    THEN UnitsOfScalar((b[i] - 240) * 262144 + (b[i+1] - 128) * 4096
                       + (b[i+2] - 128) * 64 + (b[i+3] - 128))
    ELSE IF \E k \in 1..3 : SequenceAt(b, i - k) > k
    THEN <<>>
    ELSE <<ReplacementChar>>

RECURSIVE DecodeRange(_, _, _)
DecodeRange(b, lo, hi) ==
    IF lo > hi THEN <<>>
    ELSE IF lo = hi THEN DecodeByte(b, lo)
    ELSE LET mid == (lo + hi) \div 2 IN
         DecodeRange(b, lo, mid) \o DecodeRange(b, mid + 1, hi)

\* new TextDecoder() has ignoreBOM false: a leading EF BB BF is dropped.
TextDecoderDecode(b) ==
    IF Len(b) >= 3 /\ b[1] = 239 /\ b[2] = 187 /\ b[3] = 191
    THEN DecodeRange(b, 4, Len(b))
    ELSE DecodeRange(b, 1, Len(b))

-----------------------------------------------------------------------------
(* Keys and crypto.subtle.  Key material is opaque: the pair number p      *)
(* stands for the random material generateKey drew.                        *)

Pairs == 1..NumSaves

ModulusLength == 2048
HashBytes == 32

PrivateKeyOf(p) ==
    [type |-> "private", pair |-> p, extractable |-> TRUE, usages |-> {"decrypt"}]
PublicKeyOf(p) ==
    [type |-> "public", pair |-> p, extractable |-> TRUE, usages |-> {"encrypt"}]
NoKey == [type |-> "none", pair |-> 0, extractable |-> FALSE, usages |-> {}]

\* createKeys: an extractable RSA-OAEP pair.
createKeys(p) == [privateKey |-> PrivateKeyOf(p), publicKey |-> PublicKeyOf(p)]

\* The binary export of a key: a short stand-in for its DER structure.
Der(type, p) == <<48, 130, IF type = "private" THEN 4 ELSE 1, 160 + p>>

FormatType(format) == IF format = "pkcs8" THEN "private" ELSE "public"

Failure(e) == [ok |-> FALSE, err |-> e, val |-> <<>>]
Success(v) == [ok |-> TRUE, err |-> "", val |-> v]

\* crypto.subtle.exportKey: rejects a key that is not extractable or is not
\* of the format's type.
exportKey(format, key) ==
    IF ~key.extractable \/ key.type # FormatType(format)
    THEN Failure("InvalidAccessError")
    ELSE Success(Der(key.type, key.pair))

\* crypto.subtle.importKey: rejects bytes that are no key of the format.
importKey(format, bytes, usages) ==
    IF \E p \in Pairs : bytes = Der(FormatType(format), p)
    THEN [ok |-> TRUE, err |-> "",
          key |-> [type |-> FormatType(format),
                   pair |-> (CHOOSE p \in Pairs : bytes = Der(FormatType(format), p)),
                   extractable |-> TRUE, usages |-> usages]]
    ELSE [ok |-> FALSE, err |-> "DataError", key |-> NoKey]

exportPublicKeyToBase64(publicKey) ==
    LET exported == exportKey("spki", publicKey) IN
    IF ~exported.ok THEN exported
    ELSE LET b == btoa(ab2str(exported.val)) IN
         IF b.ok THEN Success(b.val) ELSE Failure("InvalidCharacterError")

exportPrivateKeyToBase64(privateKey) ==
    LET exported == exportKey("pkcs8", privateKey) IN
    IF ~exported.ok THEN exported
    ELSE LET b == btoa(ab2str(exported.val)) IN
         IF b.ok THEN Success(b.val) ELSE Failure("InvalidCharacterError")

importPublicKey(pem) ==
    LET binaryDerString == atob(pem) IN
    IF ~binaryDerString.ok
    THEN [ok |-> FALSE, err |-> "InvalidCharacterError", key |-> NoKey]
    ELSE importKey("spki", str2ab(binaryDerString.val), {"encrypt"})

importPrivateKey(pem) ==
    LET binaryDerString == atob(pem) IN
    IF ~binaryDerString.ok
    THEN [ok |-> FALSE, err |-> "InvalidCharacterError", key |-> NoKey]
    ELSE importKey("pkcs8", str2ab(binaryDerString.val), {"decrypt"})

\* The longest plaintext RSA-OAEP takes: k - 2 hLen - 2 bytes.
MaxPlaintextBytes == ModulusLength \div 8 - 2 * HashBytes - 2

NoCipher == [pair |-> 0, data |-> <<>>]

\* crypto.subtle.encrypt with RSA-OAEP: the ciphertext is opaque and opens
\* only under the private key of the same pair.
subtleEncrypt(key, data) ==
    IF key.type # "public" \/ "encrypt" \notin key.usages
    THEN [ok |-> FALSE, err |-> "InvalidAccessError", ct |-> NoCipher]
    ELSE IF Len(data) > MaxPlaintextBytes
    THEN [ok |-> FALSE, err |-> "OperationError", ct |-> NoCipher]
    ELSE [ok |-> TRUE, err |-> "", ct |-> [pair |-> key.pair, data |-> data]]

subtleDecrypt(key, ct) ==
    IF key.type # "private" \/ "decrypt" \notin key.usages
    THEN Failure("InvalidAccessError")
    ELSE IF ct.pair # key.pair
    THEN Failure("OperationError")
    ELSE Success(ct.data)

\* encryptMessage: called tells whether crypto.subtle.encrypt was reached.
encryptMessageViaStr2ab(publicKeyBase64, message) ==
    LET publicKey == importPublicKey(publicKeyBase64) IN
    IF ~publicKey.ok
    THEN [status |-> publicKey.err, called |-> FALSE, msg |-> message, ct |-> NoCipher]
    ELSE LET r == subtleEncrypt(publicKey.key, str2ab(message)) IN
         [status |-> IF r.ok THEN "ok" ELSE r.err, called |-> TRUE,
          msg |-> message, ct |-> r.ct]
encryptMessage(publicKeyBase64, message) ==
    LET publicKey == importPublicKey(publicKeyBase64) IN
    IF ~publicKey.ok
    THEN [status |-> publicKey.err, called |-> FALSE, msg |-> message, ct |-> NoCipher]
    ELSE LET r == subtleEncrypt(publicKey.key, TextEncoderEncode(message)) IN
         [status |-> IF r.ok THEN "ok" ELSE r.err, called |-> TRUE,
          msg |-> message, ct |-> r.ct]

decryptMessage(privateKey, encryptedMessage) ==
    LET decryptedMessage == subtleDecrypt(privateKey, encryptedMessage) IN
    IF ~decryptedMessage.ok
    THEN [status |-> decryptedMessage.err, text |-> <<>>]
    ELSE [status |-> "ok", text |-> TextDecoderDecode(decryptedMessage.val)]

encodeEncryptedMessageAsBase64(encryptedMessage) == btoa(ab2str(encryptedMessage))

decodeBase64EncryptedMessage(base64encodedMessage) ==
    LET s == atob(base64encodedMessage) IN
    IF s.ok THEN Success(str2ab(s.val)) ELSE Failure("InvalidCharacterError")

-----------------------------------------------------------------------------
(* The key store.                                                          *)

Saves == 1..NumSaves

\* The browsing contexts of the origin.  They share one localStorage; each
\* runs its own event loop, in which a task runs to its next await before
\* another task of the same context is taken up.
Contexts == {"tabA", "tabB"}

Fields == {"privateKeyBase64", "publicKeyBase64", "ttl"}

ttlSeconds == 3600

\* Date.now() + ttlSeconds * 1000 at clock value t.
ExpirationInSeconds(t) == t + ttlSeconds
ExpirationTimestamp(t) == t + ttlSeconds * 1000

NoWriter == [by |-> 0, ctx |-> "none"]

NoKeys == [privateKey |-> NoKey, publicKey |-> NoKey]

NotCalled ==
    [pc |-> "idle", ctx |-> "none", keys |-> NoKeys, priv |-> <<>>, pub |-> <<>>,
     at |-> 0, expirationTimestamp |-> 0, failedAt |-> "none"]

\* What a caller may hand to saveKeysToLocalStorage for pair p: the pair
\* createKeys made, or a pair one of whose keys cannot be exported.
KeysArgs(p) ==
    { createKeys(p),
      [createKeys(p) EXCEPT !.privateKey.extractable = FALSE],
      [createKeys(p) EXCEPT !.publicKey.extractable = FALSE] }

\* The call of save s has written a field and not yet reached the end of
\* its block of setItem calls.
InBlock(s) == sv[s].pc \in {"setPublic", "setTtl"}

\* A task of context c (other than save s itself) can take a step: no save
\* of c is in the middle of its synchronous block.
CanRunAnyTime(c, s) == TRUE
CanRun(c, s) == \A s2 \in Saves \ {s} : ~(InBlock(s2) /\ sv[s2].ctx = c)

\* The catch block: console.error(e), and the call completes normally.
CatchRethrow(l) == [pc |-> "threw", log |-> l]
Catch(l) == [pc |-> "returned", log |-> l + 1]

\* The call s ends in its catch block, having failed at step f.
Caught(s, f) ==
    /\ sv' = [sv EXCEPT ![s] = [NotCalled EXCEPT !.pc = Catch(log).pc, !.failedAt = f]]
    /\ log' = Catch(log).log

\* The call s ends after its last setItem.
Returned(s) == sv' = [sv EXCEPT ![s] = [NotCalled EXCEPT !.pc = "returned"]]

\* localStorage.setItem(f, v) by save s.
SetItem(s, f, v) ==
    /\ store' = [store EXCEPT ![f] = Some(v)]
    /\ writer' = [writer EXCEPT ![f] = [by |-> s, ctx |-> sv[s].ctx]]

NoLoad ==
    [status |-> "none", privateKey |-> NoKey, publicKey |-> <<>>,
     at |-> 0, read |-> [f \in Fields |-> Absent], savedAt |-> 0]

NoEnc == [status |-> "none", called |-> FALSE, msg |-> <<>>, ct |-> NoCipher]
NoDec == [status |-> "none", text |-> <<>>]

\* The outcome of a call is what its caller sees when the call settles; the
\* model keeps it until the next step of any other operation.
Forget ==
    /\ lastLoad' = NoLoad
    /\ enc' = NoEnc
    /\ dec' = NoDec

\* saveKeysToLocalStorage(keys) is called in context c and suspends at its
\* first await.
SaveCall(s, c, keys) ==
    /\ sv[s].pc = "idle"
    /\ CanRun(c, s)
    /\ sv' = [sv EXCEPT ![s] = [@ EXCEPT !.pc = "exportPrivate", !.ctx = c, !.keys = keys]]
    /\ UNCHANGED <<store, now, ticks, writer, savedAt, failedWrite, log,
                   buf, str, back, codecPc>>
    /\ Forget

\* The private key's export settles; the call goes on to the public key.
SaveExportedPrivate(s) ==
    /\ sv[s].pc = "exportPrivate"
    /\ CanRun(sv[s].ctx, s)
    /\ LET exportedPrivateKey == exportPrivateKeyToBase64(sv[s].keys.privateKey) IN
       IF exportedPrivateKey.ok
       THEN /\ sv' = [sv EXCEPT ![s] = [@ EXCEPT !.pc = "exportPublic",
                                                 !.priv = exportedPrivateKey.val]]
            /\ log' = log
       ELSE Caught(s, "exportPrivate")
    /\ UNCHANGED <<store, now, ticks, writer, savedAt, failedWrite, buf, str, back, codecPc>>
    /\ Forget

\* The public key's export settles; the call reads the clock and makes its
\* first setItem, which throws (quota exceeded) when thrown is true.
SaveExportedPublic(s, thrown) ==
    /\ sv[s].pc = "exportPublic"
    /\ CanRun(sv[s].ctx, s)
    /\ LET exportedPublicKey == exportPublicKeyToBase64(sv[s].keys.publicKey) IN
       IF ~exportedPublicKey.ok
       THEN /\ Caught(s, "exportPublic")
            /\ UNCHANGED <<store, writer, failedWrite>>
       ELSE IF thrown
       THEN /\ Caught(s, "setItem")
            /\ failedWrite' = TRUE
            /\ UNCHANGED <<store, writer>>
       ELSE /\ SetItem(s, "privateKeyBase64", sv[s].priv)
            /\ sv' = [sv EXCEPT ![s] =
                        [@ EXCEPT !.pc = "setPublic",
                                  !.pub = exportedPublicKey.val,
                                  !.at = now,
                                  !.expirationTimestamp = ExpirationTimestamp(now)]]
            /\ UNCHANGED <<log, failedWrite>>
    /\ UNCHANGED <<now, ticks, savedAt, buf, str, back, codecPc>>
    /\ Forget

\* The second setItem.
SaveSetPublic(s, thrown) ==
    /\ sv[s].pc = "setPublic"
    /\ IF thrown
       THEN /\ Caught(s, "setItem")
            /\ failedWrite' = TRUE
            /\ UNCHANGED <<store, writer>>
       ELSE /\ SetItem(s, "publicKeyBase64", sv[s].pub)
            /\ sv' = [sv EXCEPT ![s] = [@ EXCEPT !.pc = "setTtl"]]
            /\ UNCHANGED <<log, failedWrite>>
    /\ UNCHANGED <<now, ticks, savedAt, buf, str, back, codecPc>>
    /\ Forget

\* The third setItem, after which the call returns.
SaveSetTtl(s, thrown) ==
    /\ sv[s].pc = "setTtl"
    /\ IF thrown
       THEN /\ Caught(s, "setItem")
            /\ failedWrite' = TRUE
            /\ UNCHANGED <<store, writer, savedAt>>
       ELSE /\ SetItem(s, "ttl", toString(sv[s].expirationTimestamp))
            /\ savedAt' = sv[s].at
            /\ Returned(s)
            /\ UNCHANGED <<log, failedWrite>>
    /\ UNCHANGED <<now, ticks, buf, str, back, codecPc>>
    /\ Forget

\* fetchKeysFromLocalStorage on the storage st at clock value t.
fetchKeysPublicKeyFirst(st, t) ==
    LET privateKeyBase64 == st["privateKeyBase64"]
        publicKeyBase64 == st["publicKeyBase64"]
        keyExpiration == parseInt(st["ttl"])
        failed(e) == [status |-> e, privateKey |-> NoKey, publicKey |-> <<>>]
    IN IF ~publicKeyBase64.has THEN failed("public key not found")
       ELSE IF ~privateKeyBase64.has THEN failed("private key not found")
       ELSE IF LessThan(t, keyExpiration)
       THEN LET k == importPrivateKey(privateKeyBase64.val) IN
            IF k.ok
            THEN [status |-> "ok", privateKey |-> k.key, publicKey |-> publicKeyBase64.val]
            ELSE failed(k.err)
       ELSE failed("keys expired")
fetchKeysFromLocalStorage(st, t) ==
    LET privateKeyBase64 == st["privateKeyBase64"]
        publicKeyBase64 == st["publicKeyBase64"]
        keyExpiration == parseInt(st["ttl"])
        failed(e) == [status |-> e, privateKey |-> NoKey, publicKey |-> <<>>]
    IN IF ~privateKeyBase64.has THEN failed("private key not found")
       ELSE IF ~publicKeyBase64.has THEN failed("public key not found")
       ELSE IF LessThan(t, keyExpiration)
       THEN LET k == importPrivateKey(privateKeyBase64.val) IN
            IF k.ok
            THEN [status |-> "ok", privateKey |-> k.key, publicKey |-> publicKeyBase64.val]
            ELSE failed(k.err)
       ELSE failed("keys expired")

\* A call of fetchKeysFromLocalStorage in context c.
Load(c) ==
    /\ CanRun(c, 0)
    /\ LET r == fetchKeysFromLocalStorage(store, now) IN
       lastLoad' = [status |-> r.status, privateKey |-> r.privateKey,
                    publicKey |-> r.publicKey,
                    at |-> now, read |-> store, savedAt |-> savedAt]
    /\ enc' = NoEnc
    /\ dec' = NoDec
    /\ UNCHANGED <<store, now, ticks, sv, writer, savedAt, failedWrite, log,
                   buf, str, back, codecPc>>

\* Time passes.
Tick(d) ==
    /\ ticks < MaxTicks
    /\ now' = now + d
    /\ ticks' = ticks + 1
    /\ UNCHANGED <<store, sv, writer, savedAt, failedWrite, log, buf, str, back, codecPc>>
    /\ Forget

\* A millisecond, or the whole validity window.
Delays == {1, ttlSeconds * 1000}

InitStore ==
    /\ store = [f \in Fields |-> Absent]
    /\ now = StartMillis
    /\ ticks = 0
    /\ sv = [s \in Saves |-> NotCalled]
    /\ writer = [f \in Fields |-> NoWriter]
    /\ savedAt = 0
    /\ failedWrite = FALSE
    /\ log = 0
    /\ lastLoad = NoLoad
    /\ enc = NoEnc
    /\ dec = NoDec

InitCodec ==
    /\ buf = <<>>
    /\ str = <<>>
    /\ back = <<>>
    /\ codecPc = "off"

Init == InitStore /\ InitCodec

Next ==
    \/ \E s \in Saves, c \in Contexts : \E keys \in KeysArgs(s) : SaveCall(s, c, keys)
    \/ \E s \in Saves : SaveExportedPrivate(s)
    \/ \E s \in Saves, thrown \in BOOLEAN : SaveExportedPublic(s, thrown)
    \/ \E s \in Saves, thrown \in BOOLEAN : SaveSetPublic(s, thrown)
    \/ \E s \in Saves, thrown \in BOOLEAN : SaveSetTtl(s, thrown)
    \/ \E c \in Contexts : Load(c)
    \/ \E d \in Delays : Tick(d)

Spec == Init /\ [][Next]_vars

-----------------------------------------------------------------------------
(* Properties of the key store, checked under Spec.                        *)

BothKeysRead ==
    /\ lastLoad.status # "none"
    /\ lastLoad.read["privateKeyBase64"].has
    /\ lastLoad.read["publicKeyBase64"].has

\* C1: a load that found both key fields and a ttl written by save succeeds
\* if and only if the clock value it read is strictly below the stored
\* expiry (the saving call's clock value plus one hour); otherwise it fails
\* with "keys expired".
C1_LoadValidIffBeforeExpiry ==
    (BothKeysRead /\ lastLoad.read["ttl"].has) =>
        /\ lastLoad.status = "ok" <=> lastLoad.at < lastLoad.savedAt + 3600000
        /\ lastLoad.status # "ok" => lastLoad.status = "keys expired"

\* C1 witness: a load exactly at the expiry instant has been refused.
C1_Witness ==
    /\ BothKeysRead
    /\ lastLoad.read["ttl"].has
    /\ lastLoad.at = lastLoad.savedAt + 3600000
    /\ lastLoad.status = "keys expired"

C2_TtlInv ==
    IF writer["ttl"].by = 0
    THEN ~store["ttl"].has
    ELSE /\ store["ttl"] = Some(toString(savedAt + 3600000))
         /\ parseInt(store["ttl"]) = Num(savedAt + 3600000)

C2_TtlStep ==
    store'["ttl"] # store["ttl"] =>
        \E s \in Saves : /\ sv[s].pc = "setTtl"
                         /\ sv'[s].pc = "returned"
                         /\ sv'[s].failedAt = "none"
                         /\ savedAt' = sv[s].at

\* C2: the stored 'ttl' is absent until a save has completed and then is the
\* decimal text of the clock value read by the latest completed save plus
\* 3600000; it changes only in the step in which a save completes.
C2_TtlSetOnlyBySave == []C2_TtlInv /\ [][C2_TtlStep]_vars

\* C2 witness: a second save has replaced the ttl of a first one, a load has
\* run since, and another save has failed.
C2_Witness ==
    /\ store["ttl"].has
    /\ savedAt > StartMillis
    /\ lastLoad.status = "ok"
    /\ \E s \in Saves : sv[s].pc = "returned" /\ sv[s].failedAt # "none"

ExportFailed(r) == r.failedAt \in {"exportPrivate", "exportPublic"}

C4_SaveInv ==
    \A s \in Saves :
        /\ sv[s].pc # "threw"
        /\ ExportFailed(sv[s]) =>
              /\ sv[s].pc = "returned"
              /\ \A f \in Fields : writer[f].by # s

C4_SaveStep ==
    \A s \in Saves :
        (~ExportFailed(sv[s]) /\ ExportFailed(sv'[s])) =>
            /\ store' = store
            /\ log' = log + 1

Quiescent == \A s \in Saves : ~InBlock(s)

MixedRecord ==
    /\ writer["privateKeyBase64"].by # 0
    /\ writer["publicKeyBase64"].by # 0
    /\ writer["privateKeyBase64"].by # writer["publicKeyBase64"].by

\* C7: two save calls for different pairs can leave the private key of one
\* pair beside the public key of the other without any write failing; when
\* the store is left so (no call in the middle of its writes), the two calls
\* ran in different browsing contexts (within one event loop the three
\* writes of a call are not interleaved).
C7_MixedOnlyAcrossContexts ==
    (Quiescent /\ MixedRecord /\ ~failedWrite) =>
        writer["privateKeyBase64"].ctx # writer["publicKeyBase64"].ctx

\* C7 witness: all calls have returned without any failure and the record
\* is mixed.
C7_Witness ==
    /\ MixedRecord
    /\ ~failedWrite
    /\ \A s \in Saves : sv[s].pc = "returned" /\ sv[s].failedAt = "none"
    /\ importPrivateKey(store["privateKeyBase64"].val).key.pair
          # importPublicKey(store["publicKeyBase64"].val).key.pair

\* C8: whenever no save is in the middle of its writes, the three fields are
\* all absent or were all written by one save call.
C8_RecordNeverPartial ==
    Quiescent =>
        \/ \A f \in Fields : ~store[f].has
        \/ /\ \A f \in Fields : store[f].has
           /\ \E s \in Saves : \A f \in Fields : writer[f].by = s

-----------------------------------------------------------------------------
(* fetchKeysFromLocalStorage on any content of the storage.  localStorage  *)
(* outlives the page and is open to every script of the origin, so a load  *)
(* can meet any combination of the three fields.                           *)

\* Texts of a 'ttl' field that hold no integer: "", "abc", "null", "-", "x12".
JunkTtl == { <<>>, <<97, 98, 99>>, NullText, <<MinusChar>>, <<120, 49, 50>> }

\* Texts of a 'ttl' field that hold one: a clock value, "12abc", " 0x7d0".
NumberTtl ==
    { toString(StartMillis + 1), <<49, 50, 97, 98, 99>>, <<32, 48, 120, 55, 100, 48>> }

\* Texts of a key field: an exported key, "!!" (no Base64), "AAAA" (no key).
PrivateTexts == { exportPrivateKeyToBase64(PrivateKeyOf(1)).val, <<33, 33>>, <<65, 65, 65, 65>> }
PublicTexts == { exportPublicKeyToBase64(PublicKeyOf(1)).val, <<33, 33>> }

Optional(S) == {Absent} \cup {Some(v) : v \in S}

InitLoad ==
    /\ store \in { [f \in Fields |-> IF f = "privateKeyBase64" THEN a
                                     ELSE IF f = "publicKeyBase64" THEN b ELSE c] :
                   a \in Optional(PrivateTexts), b \in Optional(PublicTexts),
                   c \in Optional(JunkTtl \cup NumberTtl) }
    /\ now = StartMillis
    /\ ticks = 0
    /\ sv = [s \in Saves |-> NotCalled]
    /\ writer = [f \in Fields |-> NoWriter]
    /\ savedAt = 0
    /\ failedWrite = FALSE
    /\ log = 0
    /\ lastLoad = NoLoad
    /\ enc = NoEnc
    /\ dec = NoDec
    /\ InitCodec

NextLoad ==
    \/ \E c \in Contexts : Load(c)
    \/ \E d \in Delays : Tick(d)

SpecLoad == InitLoad /\ [][NextLoad]_vars

\* C3: a load that finds no private key fails with "private key not found"
\* whatever the other two fields hold; one that finds a private key and no
\* public key fails with "public key not found" whatever the ttl holds; the
\* expiry is decided ("ok" or "keys expired") only with both keys present.
C3_LoadChecksInOrder ==
    lastLoad.status # "none" =>
        /\ ~lastLoad.read["privateKeyBase64"].has
              => lastLoad.status = "private key not found"
        /\ (lastLoad.read["privateKeyBase64"].has /\ ~lastLoad.read["publicKeyBase64"].has)
              => lastLoad.status = "public key not found"
        /\ lastLoad.status \in {"ok", "keys expired"} => BothKeysRead

\* C3 witness: the private key was reported missing although the public key
\* and a ttl that is still in the future were stored.
C3_Witness ==
    /\ lastLoad.status = "private key not found"
    /\ lastLoad.read["publicKeyBase64"].has
    /\ lastLoad.read["ttl"] = Some(toString(StartMillis + 1))
    /\ lastLoad.at = StartMillis

\* C10: with both key fields present and the ttl absent or holding no
\* integer, a load fails with "keys expired" at every clock value.
C10_NoTtlMeansExpired ==
    (/\ BothKeysRead
     /\ (~lastLoad.read["ttl"].has \/ lastLoad.read["ttl"].val \in JunkTtl))
        => lastLoad.status = "keys expired"

\* C10 witness: a load of a record with valid keys and no ttl was refused as
\* expired.
C10_Witness ==
    /\ BothKeysRead
    /\ ~lastLoad.read["ttl"].has
    /\ importPrivateKey(lastLoad.read["privateKeyBase64"].val).ok
    /\ lastLoad.status = "keys expired"

-----------------------------------------------------------------------------
(* The codec round trip.                                                   *)

SampleBytes == {0, 127, 128, 255}

RECURSIVE SeqsUpTo(_, _)
SeqsUpTo(S, n) ==
    IF n = 0 THEN {<<>>}
    ELSE LET shorter == SeqsUpTo(S, n - 1) IN
         shorter \cup {Append(q, x) : q \in {r \in shorter : Len(r) = n - 1}, x \in S}

\* Every single byte, and the sampled bytes in every sequence up to MaxLen.
Buffers == {<<b>> : b \in 0..255} \cup SeqsUpTo(SampleBytes, MaxLen)

InitRoundTrip ==
    /\ InitStore
    /\ buf \in Buffers
    /\ str = <<>>
    /\ back = <<>>
    /\ codecPc = "buffer"

Ab2Str ==
    /\ codecPc = "buffer"
    /\ str' = ab2str(buf)
    /\ codecPc' = "string"
    /\ UNCHANGED <<store, now, ticks, sv, writer, savedAt, failedWrite, log,
                   lastLoad, enc, dec, buf, back>>

Str2Ab ==
    /\ codecPc = "string"
    /\ back' = str2ab(str)
    /\ codecPc' = "done"
    /\ UNCHANGED <<store, now, ticks, sv, writer, savedAt, failedWrite, log,
                   lastLoad, enc, dec, buf, str>>

NextCodec == Ab2Str \/ Str2Ab

SpecCodec == InitRoundTrip /\ [][NextCodec]_vars

\* C9: str2ab(ab2str(b)) has the length of b and the byte of b at every
\* index.
C9_CodecRoundTrip ==
    codecPc = "done" =>
        /\ Len(back) = Len(buf)
        /\ \A i \in 1..Len(buf) : back[i] = buf[i]

\* C9 witness: a buffer of the greatest length holding 0, 128 and 255 has
\* made the round trip.
C9_Witness ==
    /\ codecPc = "done"
    /\ Len(buf) = MaxLen
    /\ {0, 128, 255} \subseteq {buf[i] : i \in 1..Len(buf)}
    /\ Len(str) = MaxLen

-----------------------------------------------------------------------------
(* End to end: one caller generates a pair, saves it, loads it, encrypts   *)
(* with the loaded public key and decrypts with the loaded private key,    *)
(* awaiting each call before the next.                                     *)

Pad(k) == [i \in 1..k |-> 97]

\* "hi", U+FEFF "hi", a lone high surrogate, U+1F600, the euro sign, e acute,
\* and texts of 190 and 191 bytes, in ASCII and ending in a two-byte letter.
Messages ==
    { <<104, 105>>, <<65279, 104, 105>>, <<55357>>, <<55357, 56832>>, <<8364>>, <<233>>,
      Pad(MaxPlaintextBytes), Pad(MaxPlaintextBytes + 1),
      Pad(MaxPlaintextBytes - 2) \o <<233>>, Pad(MaxPlaintextBytes - 1) \o <<233>> }

Settled == \A s \in Saves : sv[s].pc \in {"idle", "returned", "threw"}

\* The caller saves the pair createKeys made.
SaveGenerated(s) ==
    /\ Settled
    /\ SaveCall(s, "tabA", createKeys(s))

LoadSaved ==
    /\ Settled
    /\ \E s \in Saves : sv[s].pc # "idle"
    /\ Load("tabA")

\* encryptMessage(publicKey of the load, m).
Encrypt(m) ==
    /\ lastLoad.status = "ok"
    /\ enc.status = "none"
    /\ enc' = encryptMessage(lastLoad.publicKey, m)
    /\ UNCHANGED <<store, now, ticks, sv, writer, savedAt, failedWrite, log,
                   lastLoad, dec, buf, str, back, codecPc>>

\* decryptMessage(privateKey of the load, the ciphertext just made).
Decrypt ==
    /\ lastLoad.status = "ok"
    /\ enc.status = "ok"
    /\ dec.status = "none"
    /\ dec' = decryptMessage(lastLoad.privateKey, enc.ct)
    /\ UNCHANGED <<store, now, ticks, sv, writer, savedAt, failedWrite, log,
                   lastLoad, enc, buf, str, back, codecPc>>

NextE2E ==
    \/ \E s \in Saves : SaveGenerated(s)
    \/ \E s \in Saves : SaveExportedPrivate(s)
    \/ \E s \in Saves, thrown \in BOOLEAN : SaveExportedPublic(s, thrown)
    \/ \E s \in Saves, thrown \in BOOLEAN : SaveSetPublic(s, thrown)
    \/ \E s \in Saves, thrown \in BOOLEAN : SaveSetTtl(s, thrown)
    \/ LoadSaved
    \/ \E m \in Messages : Encrypt(m)
    \/ Decrypt
    \/ \E d \in Delays : Tick(d)

SpecE2E == Init /\ [][NextE2E]_vars

\* The text holds no surrogate outside a pair.
WellFormed(m) ==
    \A i \in 1..Len(m) :
        /\ IsHighSurrogate(m[i]) => (i < Len(m) /\ IsLowSurrogate(m[i+1]))
        /\ IsLowSurrogate(m[i]) => (i > 1 /\ IsHighSurrogate(m[i-1]))

\* The number of bytes of the UTF-8 form of a well-formed text, counted from
\* the code units: 1 below U+0080, 2 below U+0800, 3 otherwise, and 4 for a
\* surrogate pair (2 for each half).
RECURSIVE Utf8LengthOf(_, _, _)
Utf8LengthOf(m, lo, hi) ==
    IF lo > hi THEN 0
    ELSE IF lo = hi
    THEN (IF m[lo] < 128 THEN 1
          ELSE IF m[lo] < 2048 THEN 2
          ELSE IF IsHighSurrogate(m[lo]) \/ IsLowSurrogate(m[lo]) THEN 2
          ELSE 3)
    ELSE LET mid == (lo + hi) \div 2 IN
         Utf8LengthOf(m, lo, mid) + Utf8LengthOf(m, mid + 1, hi)

Utf8Length(m) == Utf8LengthOf(m, 1, Len(m))

\* C5: generate, save, load within the TTL, encrypt a well-formed text of at
\* most 190 bytes with the loaded public key, decrypt with the loaded
\* private key: the result is the original text.
C5_EndToEndRoundTrip ==
    (dec.status # "none" /\ WellFormed(enc.msg)) =>
        /\ dec.status = "ok"
        /\ dec.text = enc.msg

\* C6 as claimed: a text of more than 190 bytes is refused before
\* crypto.subtle.encrypt is called, and one of at most 190 bytes succeeds.
C6_SizeCheckedBeforeCrypto ==
    (enc.status # "none" /\ WellFormed(enc.msg)) =>
        IF Utf8Length(enc.msg) > 190
        THEN enc.status # "ok" /\ ~enc.called
        ELSE enc.status = "ok"

\* C6 amended: encryptMessage makes no check of its own; a text of more than
\* 190 bytes reaches crypto.subtle.encrypt, which rejects it with an
\* OperationError, and a text of at most 190 bytes is encrypted.
C6_SizeCheckedByCrypto ==
    (enc.status # "none" /\ WellFormed(enc.msg)) =>
        /\ enc.called
        /\ IF Utf8Length(enc.msg) > 190
           THEN enc.status = "OperationError"
           ELSE enc.status = "ok" /\ enc.ct.data = TextEncoderEncode(enc.msg)

\* C6 witness: a text of 190 code units and 191 bytes has been rejected by
\* crypto.subtle.encrypt.
C6_Witness ==
    /\ enc.status = "OperationError"
    /\ enc.called
    /\ Len(enc.msg) = 190
    /\ Utf8Length(enc.msg) = 191

=============================================================================
